---- MODULE Spec2Model ----
(***************************************************************************)
(* Model of the pyscheme front end: tokenise (tokeniser.py) and the        *)
(* recursive-descent parser parse_expression / parse_list (parser.py).     *)
(*                                                                         *)
(* A Python str is modelled as a sequence of one-character strings, so a   *)
(* token is a sequence of characters and a token list is a sequence of     *)
(* such sequences.  Python positions are 0-based: tokens[p] in the source  *)
(* is tokens[p + 1] here.                                                  *)
(***************************************************************************)
EXTENDS Integers, Sequences

VARIABLES input, tokens, retok, position, start, from, result, calls, spans,
          entry, pc

vars == <<input, tokens, retok, position, start, from, result, calls, spans,
          entry, pc>>

\* ------------------------------------------------------------------ bounds
\* longest input text of the text pipeline
MaxLen == 6
\* longest token list handed directly to the parser
MaxTokens == 4

\* ------------------------------------------------------------- characters
Quote == "\""
LParen == "("
RParen == ")"

\* characters the input texts are drawn from
Alphabet == {LParen, RParen, Quote, " ", "a", "1"}

\* the characters str.strip() / str.split() treat as white space
Whitespace == {" ", "\t", "\n", "\r"}

IsSpace(c) == c \in Whitespace

\* --------------------------------------------------------- str primitives
\* s.replace(old, new) for a one-character old
RECURSIVE replace(_, _, _)
replace(s, old, new) ==
    IF s = <<>> THEN <<>>
    ELSE (IF Head(s) = old THEN new ELSE <<Head(s)>>) \o replace(Tail(s), old, new)

RECURSIVE lstrip(_)
lstrip(s) ==
    IF s = <<>> THEN <<>>
    ELSE IF IsSpace(Head(s)) THEN lstrip(Tail(s)) ELSE s

RECURSIVE rstrip(_)
rstrip(s) ==
    IF s = <<>> THEN <<>>
    ELSE IF IsSpace(s[Len(s)]) THEN rstrip(SubSeq(s, 1, Len(s) - 1)) ELSE s

\* s.strip()
strip(s) == rstrip(lstrip(s))

\* length of the leading run of non-space characters of s
RECURSIVE WordLen(_)
WordLen(s) ==
    IF s = <<>> \/ IsSpace(Head(s)) THEN 0 ELSE 1 + WordLen(Tail(s))

\* s.split(): the maximal runs of non-space characters, in order
RECURSIVE split(_)
split(s) ==
    LET t == lstrip(s) IN
    IF t = <<>> THEN <<>>
    ELSE <<SubSeq(t, 1, WordLen(t))>> \o split(SubSeq(t, WordLen(t) + 1, Len(t)))

\* s.find(ch, begin): 0-based index of the first ch at or after begin, or -1
RECURSIVE find(_, _, _)
find(s, ch, begin) ==
    IF begin >= Len(s) THEN -1
    ELSE IF s[begin + 1] = ch THEN begin
    ELSE find(s, ch, begin + 1)

\* s.count(ch)
RECURSIVE count(_, _)
count(s, ch) ==
    IF s = <<>> THEN 0
    ELSE (IF Head(s) = ch THEN 1 ELSE 0) + count(Tail(s), ch)

\* s[lo:hi] for 0 <= lo, hi
Slice(s, lo, hi) == SubSeq(s, lo + 1, IF hi > Len(s) THEN Len(s) ELSE hi)

\* -------------------------------------------------------------- tokeniser
\* faulty variant: ")" is not set apart
regular_tokeniser_no_close(s) ==
    split(strip(replace(s, LParen, <<" ", LParen, " ">>)))

regular_tokeniser(s) ==
    split(strip(replace(replace(s, LParen, <<" ", LParen, " ">>),
                        RParen, <<" ", RParen, " ">>)))

RECURSIVE tokenise(_)

\* faulty variant: the quoted slice stops before the closing quote
quoted_pair_tokeniser_short(s) ==
    LET first_quote == find(s, Quote, 0)
        second_quote == find(s, Quote, first_quote + 1)
        pre_quoted_substring == Slice(s, 0, first_quote)
        quoted_substring_preserved == Slice(s, first_quote, second_quote)
        post_quoted_substring == Slice(s, second_quote, Len(s))
    IN  (IF strip(pre_quoted_substring) # <<>>
            THEN regular_tokeniser(pre_quoted_substring) ELSE <<>>)
        \o <<quoted_substring_preserved>>
        \o (IF strip(post_quoted_substring) # <<>>
               THEN tokenise(post_quoted_substring) ELSE <<>>)

\* faulty variant: the text after the pair is not searched for further pairs
quoted_pair_tokeniser_regular_post(s) ==
    LET first_quote == find(s, Quote, 0)
        second_quote == find(s, Quote, first_quote + 1)
        pre_quoted_substring == Slice(s, 0, first_quote)
        quoted_substring_preserved == Slice(s, first_quote, second_quote + 1)
        post_quoted_substring == Slice(s, second_quote + 1, Len(s))
    IN  (IF strip(pre_quoted_substring) # <<>>
            THEN regular_tokeniser(pre_quoted_substring) ELSE <<>>)
        \o <<quoted_substring_preserved>>
        \o (IF strip(post_quoted_substring) # <<>>
               THEN regular_tokeniser(post_quoted_substring) ELSE <<>>)

quoted_pair_tokeniser(s) ==
    LET first_quote == find(s, Quote, 0)
        second_quote == find(s, Quote, first_quote + 1)
        pre_quoted_substring == Slice(s, 0, first_quote)
        quoted_substring_preserved == Slice(s, first_quote, second_quote + 1)
        post_quoted_substring == Slice(s, second_quote + 1, Len(s))
    IN  (IF strip(pre_quoted_substring) # <<>>
            THEN regular_tokeniser(pre_quoted_substring) ELSE <<>>)
        \o <<quoted_substring_preserved>>
        \o (IF strip(post_quoted_substring) # <<>>
               THEN tokenise(post_quoted_substring) ELSE <<>>)

tokenise(s) ==
    IF s = <<>> THEN <<>>
    ELSE IF find(s, Quote, 0) = -1 THEN regular_tokeniser(s)
    ELSE IF count(s, Quote) % 2 # 0 THEN regular_tokeniser(s)
    ELSE quoted_pair_tokeniser(s)

\* " ".join(toks)
RECURSIVE JoinTokens(_)
JoinTokens(toks) ==
    IF toks = <<>> THEN <<>>
    ELSE IF Len(toks) = 1 THEN toks[1]
    ELSE toks[1] \o <<" ">> \o JoinTokens(Tail(toks))

\* ----------------------------------------------------------------- parser
\* the parenthesis tokens
LP == <<LParen>>
RP == <<RParen>>

DigitChars == <<"0", "1", "2", "3", "4", "5", "6", "7", "8", "9">>

IsDigit(c) == \E i \in 1..Len(DigitChars) : DigitChars[i] = c

DigitVal(c) == (CHOOSE i \in 1..Len(DigitChars) : DigitChars[i] = c) - 1

AllDigits(s) == \A i \in 1..Len(s) : IsDigit(s[i])

IsSign(c) == c \in {"+", "-"}

\* the digits of a token, its optional sign removed
Unsigned(token) ==
    IF token # <<>> /\ IsSign(Head(token)) THEN Tail(token) ELSE token

\* value of a digit string, most significant digit first
RECURSIVE DecimalValue(_)
DecimalValue(s) ==
    IF s = <<>> THEN 0
    ELSE 10 * DecimalValue(SubSeq(s, 1, Len(s) - 1)) + DigitVal(s[Len(s)])

\* float(token) succeeds.  Tokens of the model are built from parentheses,
\* quotes, letters, signs and digits, on which float() accepts exactly an
\* optionally signed, non-empty run of digits.
is_number(token) ==
    LET digits == Unsigned(token) IN digits # <<>> /\ AllDigits(digits)

\* float(token) of a token is_number accepts
to_float(token) ==
    IF token # <<>> /\ Head(token) = "-"
        THEN 0 - DecimalValue(Unsigned(token))
        ELSE DecimalValue(Unsigned(token))

number_node(value) == [type |-> "number", name |-> value]

symbol_node(name) == [type |-> "symbol", name |-> name]

list_node(elements) == [type |-> "list", elements |-> elements]

\* raise ParseError(message): no node, no position
Raise(message) == [ok |-> FALSE, error |-> message]

\* return node, new_position
Return(node, new_position) ==
    [ok |-> TRUE, node |-> node, position |-> new_position]

UnexpectedEndOfInput == "Unexpected end of input"
UnexpectedEndOfTheInput == "Unexpected end of the input"
ExpectedNumber == "Expected number"
ExpectedOpenParen == "Expected opening parenthesis"
MissingClosingParen == "Missing closing parenthesis"

\* faulty variant: the sign of the literal is lost
parse_number_unsigned(toks, p) ==
    IF p >= Len(toks) THEN Raise(UnexpectedEndOfInput)
    ELSE IF ~is_number(toks[p + 1]) THEN Raise(ExpectedNumber)
    ELSE Return(number_node(DecimalValue(Unsigned(toks[p + 1]))), p + 1)

\* faulty variant: the position is advanced by two
parse_number_skip(toks, p) ==
    IF p >= Len(toks) THEN Raise(UnexpectedEndOfInput)
    ELSE IF ~is_number(toks[p + 1]) THEN Raise(ExpectedNumber)
    ELSE Return(number_node(to_float(toks[p + 1])), p + 2)

parse_number(toks, p) ==
    IF p >= Len(toks) THEN Raise(UnexpectedEndOfInput)
    ELSE IF ~is_number(toks[p + 1]) THEN Raise(ExpectedNumber)
    ELSE Return(number_node(to_float(toks[p + 1])), p + 1)

parse_symbol(toks, p) ==
    IF p >= Len(toks) THEN Raise(UnexpectedEndOfTheInput)
    ELSE Return(symbol_node(toks[p + 1]), p + 1)

RECURSIVE parse_expression(_, _)

\* faulty variant: the closing parenthesis is not skipped
RECURSIVE parse_list_loop_no_skip(_, _, _)
parse_list_loop_no_skip(toks, p, elements) ==
    IF p < Len(toks) /\ toks[p + 1] # RP
    THEN LET r == parse_expression(toks, p) IN
         IF r.ok THEN parse_list_loop_no_skip(toks, r.position, Append(elements, r.node))
         ELSE r
    ELSE IF p >= Len(toks) THEN Raise(MissingClosingParen)
    ELSE Return(list_node(elements), p)

\* faulty variant: the parsed element is not appended
RECURSIVE parse_list_loop_drop(_, _, _)
parse_list_loop_drop(toks, p, elements) ==
    IF p < Len(toks) /\ toks[p + 1] # RP
    THEN LET r == parse_expression(toks, p) IN
         IF r.ok THEN parse_list_loop_drop(toks, r.position, elements)
         ELSE r
    ELSE IF p >= Len(toks) THEN Raise(MissingClosingParen)
    ELSE Return(list_node(elements), p + 1)

\* faulty variant: at the end of the tokens the list read so far is returned
RECURSIVE parse_list_loop_recover(_, _, _)
parse_list_loop_recover(toks, p, elements) ==
    IF p < Len(toks) /\ toks[p + 1] # RP
    THEN LET r == parse_expression(toks, p) IN
         IF r.ok THEN parse_list_loop_recover(toks, r.position, Append(elements, r.node))
         ELSE r
    ELSE IF p >= Len(toks) THEN Return(list_node(elements), p)
    ELSE Return(list_node(elements), p + 1)

\* faulty variant: the loop does not test the position against the length
RECURSIVE parse_list_loop_no_bound(_, _, _)
parse_list_loop_no_bound(toks, p, elements) ==
    IF p >= Len(toks) \/ toks[p + 1] # RP
    THEN LET r == parse_expression(toks, p) IN
         IF r.ok THEN parse_list_loop_no_bound(toks, r.position, Append(elements, r.node))
         ELSE r
    ELSE Return(list_node(elements), p + 1)

\* the while loop of parse_list and what follows it
RECURSIVE parse_list_loop(_, _, _)
parse_list_loop(toks, p, elements) ==
    IF p < Len(toks) /\ toks[p + 1] # RP
    THEN LET r == parse_expression(toks, p) IN
         IF r.ok THEN parse_list_loop(toks, r.position, Append(elements, r.node))
         ELSE r
    ELSE IF p >= Len(toks) THEN Raise(MissingClosingParen)
    ELSE Return(list_node(elements), p + 1)

parse_list(toks, p) ==
    IF p >= Len(toks) \/ toks[p + 1] # LP THEN Raise(ExpectedOpenParen)
    ELSE parse_list_loop(toks, p + 1, <<>>)

\* faulty variant: the end of input is left to parse_symbol to report
parse_expression_late_check(toks, p) ==
    IF p >= Len(toks) THEN parse_symbol(toks, p)
    ELSE IF toks[p + 1] = LP THEN parse_list(toks, p)
    ELSE IF is_number(toks[p + 1]) THEN parse_number(toks, p)
    ELSE parse_symbol(toks, p)

parse_expression(toks, p) ==
    IF p >= Len(toks) THEN Raise(UnexpectedEndOfInput)
    ELSE IF toks[p + 1] = LP THEN parse_list(toks, p)
    ELSE IF is_number(toks[p + 1]) THEN parse_number(toks, p)
    ELSE parse_symbol(toks, p)

\* ------------------------------------------------------------ state machine
NoResult == [ok |-> FALSE, error |-> "no call yet"]

\* all texts of at most n characters
Texts(n) == UNION {[1..k -> Alphabet] : k \in 0..n}

\* tokens the parser is driven with directly
TokenSet == {LP, RP, <<"1">>, <<"-", "1", "2">>, <<"+">>, <<"a">>,
             <<Quote, "a", Quote>>}

TokenLists(n) == UNION {[1..k -> TokenSet] : k \in 0..n}

\* Text pipeline: a text is tokenised, then either re-joined and tokenised
\* again, or parsed from position 0.
InitText ==
    /\ input \in Texts(MaxLen)
    /\ tokens = <<>>
    /\ retok = <<>>
    /\ position = 0
    /\ start = 0
    /\ from = 0
    /\ result = NoResult
    /\ calls = 0
    /\ spans = <<>>
    /\ entry = "none"
    /\ pc = "text"

Tokenise ==
    /\ pc = "text"
    /\ tokens' = tokenise(input)
    /\ pc' = "tokens"
    /\ UNCHANGED <<input, retok, position, start, from, result, calls, spans, entry>>

Retokenise ==
    /\ pc = "tokens"
    /\ retok' = tokenise(JoinTokens(tokens))
    /\ pc' = "retokenised"
    /\ UNCHANGED <<input, tokens, position, start, from, result, calls, spans, entry>>

\* one call parse_expression(tokens, position) by a caller that threads the
\* returned position forward
Call(p) ==
    LET r == parse_expression(tokens, p) IN
    /\ result' = r
    /\ from' = p
    /\ calls' = calls + 1
    /\ entry' = "parse_expression"
    /\ IF r.ok
       THEN /\ position' = r.position
            /\ spans' = Append(spans, <<p, r.position>>)
            /\ pc' = IF r.position >= Len(tokens) \/ r.position <= p
                        THEN "done" ELSE "parsing"
       ELSE /\ position' = p
            /\ spans' = spans
            /\ pc' = "error"

ParseText ==
    /\ pc = "tokens"
    /\ Call(0)
    /\ UNCHANGED <<input, tokens, retok, start>>

NextText == Tokenise \/ Retokenise \/ ParseText

Spec == InitText /\ [][NextText]_vars

\* Parser driver: any token list, any start position up to one past the end.
InitParser ==
    /\ input = <<>>
    /\ tokens \in TokenLists(MaxTokens)
    /\ retok = <<>>
    /\ start \in 0..(Len(tokens) + 1)
    /\ position = start
    /\ from = start
    /\ result = NoResult
    /\ calls = 0
    /\ spans = <<>>
    /\ entry = "none"
    /\ pc = "start"

\* the first call, and every further call of a caller looping while the
\* position is inside the token list
ParseNext ==
    /\ pc \in {"start", "parsing"}
    /\ position < Len(tokens)
    /\ Call(position)
    /\ UNCHANGED <<input, tokens, retok, start>>

\* a call at or beyond the end of the token list
ParseAtEnd ==
    /\ pc = "start"
    /\ position >= Len(tokens)
    /\ Call(position)
    /\ UNCHANGED <<input, tokens, retok, start>>

\* a direct call parse_list(tokens, position)
CallParseList ==
    /\ pc = "start"
    /\ result' = parse_list(tokens, position)
    /\ from' = position
    /\ calls' = calls + 1
    /\ entry' = "parse_list"
    /\ position' = IF result'.ok THEN result'.position ELSE position
    /\ pc' = IF result'.ok THEN "done" ELSE "error"
    /\ UNCHANGED <<input, tokens, retok, start, spans>>

NextParser == ParseNext \/ ParseAtEnd \/ CallParseList

ParserSpec == InitParser /\ [][NextParser]_vars

\* ------------------------------------------------------ reference notions
\* Left-to-right scan of a text into tokens.  cur is the atom collected so
\* far; inq tells that the scan is inside a quoted region; pairing tells
\* whether quote characters open and close regions or are ordinary text.
RECURSIVE Scan(_, _, _, _)
Scan(s, pairing, inq, cur) ==
    LET flush == IF cur = <<>> THEN <<>> ELSE <<cur>> IN
    IF s = <<>> THEN flush
    ELSE LET c == Head(s)
             rest == Tail(s)
         IN  IF inq
             THEN IF c = Quote
                     THEN <<Append(cur, c)>> \o Scan(rest, pairing, FALSE, <<>>)
                     ELSE Scan(rest, pairing, TRUE, Append(cur, c))
             ELSE IF pairing /\ c = Quote
                     THEN flush \o Scan(rest, pairing, TRUE, <<c>>)
             ELSE IF IsSpace(c)
                     THEN flush \o Scan(rest, pairing, FALSE, <<>>)
             ELSE IF c \in {LParen, RParen}
                     THEN flush \o <<(<<c>>)>> \o Scan(rest, pairing, FALSE, <<>>)
             ELSE Scan(rest, pairing, FALSE, Append(cur, c))

\* opening minus closing markers among the first k items of s
RECURSIVE Depth(_, _, _, _)
Depth(s, k, open, close) ==
    IF k = 0 THEN 0
    ELSE Depth(s, k - 1, open, close)
         + (IF s[k] = open THEN 1 ELSE IF s[k] = close THEN -1 ELSE 0)

Balanced(s, open, close) ==
    /\ \A k \in 1..Len(s) : Depth(s, k, open, close) >= 0
    /\ Depth(s, Len(s), open, close) = 0

\* s is one parenthesised group: it opens with `open` and that opening is
\* closed by the last item of s and not before
OneGroup(s, open, close) ==
    /\ Len(s) >= 2
    /\ s[1] = open
    /\ \A k \in 1..(Len(s) - 1) : Depth(s, k, open, close) > 0
    /\ Depth(s, Len(s), open, close) = 0

\* the text, read as characters, holds one complete top-level expression:
\* one parenthesised group, one bare atom, or one quoted string
SingleExprText(s) ==
    LET t == strip(s) IN
    \/ OneGroup(t, LParen, RParen)
    \/ /\ t # <<>>
       /\ \A i \in 1..Len(t) : ~IsSpace(t[i]) /\ t[i] \notin {LParen, RParen, Quote}
    \/ /\ Len(t) >= 2
       /\ count(t, Quote) = 2
       /\ t[1] = Quote
       /\ t[Len(t)] = Quote

\* the token list holds one complete top-level expression
SingleExprTokens(toks) ==
    \/ OneGroup(toks, LP, RP)
    \/ Len(toks) = 1 /\ toks[1] \notin {LP, RP}

\* 0-based index of the ")" matching the "(" at index p, or -1
RECURSIVE MatchFrom(_, _, _)
MatchFrom(toks, i, depth) ==
    IF i >= Len(toks) THEN -1
    ELSE LET d == depth + (IF toks[i + 1] = LP THEN 1
                           ELSE IF toks[i + 1] = RP THEN -1 ELSE 0)
         IN  IF d = 0 THEN i ELSE MatchFrom(toks, i + 1, d)

MatchingClose(toks, p) == MatchFrom(toks, p, 0)

\* index just past the expression that starts at index p
ExprEnd(toks, p) ==
    IF toks[p + 1] = LP THEN MatchingClose(toks, p) + 1 ELSE p + 1

\* node is the tree of the expression toks[p .. q-1]
RECURSIVE WellFormed(_, _, _, _)
RECURSIVE Covers(_, _, _, _, _)
WellFormed(toks, p, node, q) ==
    /\ 0 <= p
    /\ p < Len(toks)
    /\ IF toks[p + 1] = LP
       THEN /\ node.type = "list"
            /\ q = MatchingClose(toks, p) + 1
            /\ q >= p + 2
            /\ toks[q] = RP
            /\ Covers(toks, node.elements, 1, p + 1, q - 1)
            /\ (node.elements = <<>>) <=> (q = p + 2)
       ELSE /\ q = p + 1
            /\ IF is_number(toks[p + 1])
               THEN node.type = "number" /\ node.name = to_float(toks[p + 1])
               ELSE node.type = "symbol" /\ node.name = toks[p + 1]

\* elements[i ..] are the trees of consecutive expressions filling toks[cur .. last-1]
Covers(toks, elements, i, cur, last) ==
    IF i > Len(elements) THEN cur = last
    ELSE /\ cur < last
         /\ LET nxt == ExprEnd(toks, cur) IN
            /\ WellFormed(toks, cur, elements[i], nxt)
            /\ Covers(toks, elements, i + 1, nxt, last)

\* the dispatch in the order the specification words it: number, list, symbol
SpecDispatch(toks, p) ==
    IF is_number(toks[p + 1])
        THEN [ok |-> TRUE,
              node |-> [type |-> "number", name |-> to_float(toks[p + 1])],
              position |-> p + 1]
    ELSE IF toks[p + 1] = LP THEN parse_list(toks, p)
    ELSE [ok |-> TRUE, node |-> [type |-> "symbol", name |-> toks[p + 1]],
          position |-> p + 1]

Parsed == entry = "parse_expression"

InRange == 0 <= from /\ from < Len(tokens)

\* ------------------------------------------------------------------ claims
\* C1 as stated: every text whose parenthesis characters are balanced and
\* that holds a single complete top-level expression parses from position 0
\* to the end of its token list, quoted parentheses included.
C1_Original ==
    (Parsed /\ Balanced(input, LParen, RParen) /\ SingleExprText(input))
        => (result.ok /\ result.position = Len(tokens))

\* C1 amended: when the "(" and ")" tokens of tokenise(input) are balanced and
\* the token list holds a single complete top-level expression,
\* parse_expression(tokenise(input), 0) succeeds and returns the length of
\* the token list.
C1_RoundTrip ==
    (Parsed /\ Balanced(tokens, LP, RP) /\ SingleExprTokens(tokens))
        => (result.ok /\ result.position = Len(tokens))

C1_Witness ==
    /\ Parsed
    /\ result.ok
    /\ tokens = <<LP, <<Quote, LParen, Quote>>, RP>>
    /\ result.position = 3

\* C2: tokenising the tokens of tokenise(s) joined by single spaces gives
\* the tokens of tokenise(s) again, for every text s.
C2_Idempotent == (pc = "retokenised") => (retok = tokens)

C2_Witness ==
    /\ pc = "retokenised"
    /\ count(input, Quote) = 3
    /\ Len(tokens) >= 3
    /\ JoinTokens(tokens) # input
    /\ retok = tokens

\* C3: with a positive even number of quote characters the quotes are paired
\* left to right, each pair yields its region verbatim as one token, the
\* text outside the pairs is tokenised by the non-quoted rule, and all
\* tokens come in source order.
C3_QuotedPairs ==
    (pc # "text" /\ count(input, Quote) > 0 /\ count(input, Quote) % 2 = 0)
        => (tokens = Scan(input, TRUE, FALSE, <<>>))

C3_Witness ==
    /\ pc = "tokens"
    /\ count(input, Quote) = 4
    /\ Len(tokens) = 3
    /\ tokens[1] = <<Quote, LParen, Quote>>
    /\ tokens[3] = <<Quote, Quote>>

\* C4: with no quote character, or an odd number of them, tokenise returns
\* the white-space split of the text with every parenthesis set apart, quote
\* characters being ordinary text; it is empty for an empty or blank text.
C4_RegularRule ==
    (pc # "text" /\ (count(input, Quote) = 0 \/ count(input, Quote) % 2 = 1))
        => /\ tokens = Scan(input, FALSE, FALSE, <<>>)
           /\ (\A i \in 1..Len(input) : IsSpace(input[i])) => (tokens = <<>>)

C4_Witness ==
    /\ pc = "tokens"
    /\ count(input, Quote) = 1
    /\ Len(tokens) = 4
    /\ tokens[1] = LP
    /\ tokens[4] = RP

\* C5: at an in-range position a number token gives (Number, p+1), "(" gives
\* the result of parse_list, any other token gives (Symbol of the raw text,
\* p+1); no token is both a number and "(", so the order of the tests does
\* not matter.
C5_Dispatch ==
    (Parsed /\ InRange)
        => /\ ~(is_number(tokens[from + 1]) /\ tokens[from + 1] = LP)
           /\ result = SpecDispatch(tokens, from)

C5_Witness ==
    /\ Parsed
    /\ result.ok
    /\ result.node.type = "list"
    /\ Len(result.node.elements) = 2
    /\ result.node.elements[1].type = "number"
    /\ result.node.elements[1].name = -12
    /\ result.node.elements[2].type = "symbol"
    /\ result.node.elements[2].name = <<Quote, "a", Quote>>

\* C6: when parse_list(tokens, p) succeeds with (List, q), tokens[p] is "(",
\* tokens[q-1] is its matching ")", the elements are the trees of the
\* consecutive expressions that exactly fill tokens[p+1 .. q-2], the list is
\* empty exactly when q = p+2, and the same holds of every nested list.
C6_ListSpan ==
    (result.ok /\ (entry = "parse_list" \/ (Parsed /\ InRange /\ tokens[from + 1] = LP)))
        => /\ InRange
           /\ tokens[from + 1] = LP
           /\ WellFormed(tokens, from, result.node, result.position)

C6_Witness ==
    /\ entry = "parse_list"
    /\ result.ok
    /\ from = 0
    /\ result.position = 4
    /\ Len(result.node.elements) = 1
    /\ result.node.elements[1].type = "list"
    /\ result.node.elements[1].elements = <<>>

\* C7: parse_expression at a "(" fails with "Missing closing parenthesis" and
\* gives no node when the tokens end before the matching ")", at any depth;
\* it succeeds when the matching ")" exists.
C7_MissingClose ==
    (Parsed /\ InRange /\ tokens[from + 1] = LP)
        => /\ (MatchingClose(tokens, from) = -1)
                 => (result = [ok |-> FALSE, error |-> MissingClosingParen])
           /\ (MatchingClose(tokens, from) # -1) => result.ok

C7_Witness ==
    /\ Parsed
    /\ from = 0
    /\ Len(tokens) = 4
    /\ tokens[1] = LP
    /\ tokens[2] = LP
    /\ tokens[3] = RP
    /\ ~result.ok
    /\ result.error = MissingClosingParen

\* C8: parse_expression at a position at or beyond the end of the token
\* list, the empty list at position 0 included, fails with "Unexpected end
\* of input" and gives no node.
C8_EndOfInput ==
    (Parsed /\ from >= Len(tokens))
        => (result = [ok |-> FALSE, error |-> UnexpectedEndOfInput])

C8_Witness ==
    /\ Parsed
    /\ tokens = <<>>
    /\ from = 0
    /\ ~result.ok
    /\ result.error = UnexpectedEndOfInput

\* C9: a successful call at an in-range position p returns q with
\* p < q <= len(tokens); a caller threading the position forward from an
\* in-range start makes at most len(tokens) - start calls, and the spans it
\* consumes are contiguous, in order and not empty.
C9_Progress ==
    /\ (Parsed /\ InRange /\ result.ok)
          => (from < result.position /\ result.position <= Len(tokens))
    /\ (Parsed /\ start < Len(tokens)) => (calls <= Len(tokens) - start)
    /\ (pc = "parsing") => (position < Len(tokens))
    /\ \A i \in 1..Len(spans) :
          /\ spans[i][1] < spans[i][2]
          /\ spans[i][1] = (IF i = 1 THEN start ELSE spans[i - 1][2])

C9_Witness ==
    /\ Parsed
    /\ pc = "done"
    /\ calls = 3
    /\ spans = << <<0, 1>>, <<1, 3>>, <<3, 4>> >>

\* C10: parse_expression at p >= 0 fails only with "Unexpected end of input"
\* or "Missing closing parenthesis"; the former only when p itself is at or
\* beyond the end; a ")" at the top level gives (Symbol ")", p+1).
C10_Errors ==
    /\ (Parsed /\ ~result.ok)
          => /\ result.error \in {UnexpectedEndOfInput, MissingClosingParen}
             /\ (result.error = UnexpectedEndOfInput) => (from >= Len(tokens))
    /\ (Parsed /\ InRange /\ tokens[from + 1] = RP)
          => /\ result.ok
             /\ result.node.type = "symbol"
             /\ result.node.name = RP
             /\ result.position = from + 1

C10_Witness ==
    /\ Parsed
    /\ from = 1
    /\ Len(tokens) >= 2
    /\ tokens[2] = RP
    /\ result.ok
    /\ result.node.type = "symbol"
    /\ result.node.name = RP
    /\ result.position = 2

====
